---- MODULE Spec2Model ----
(***************************************************************************)
(* Model of src/lib.rs: the Python-facing encode/decode orchestration      *)
(* around the reed_solomon_simd engine.  Each call is a small state        *)
(* machine whose program counter follows the statements of the function;   *)
(* every `?` of the Rust code is an early return that ends the call with   *)
(* an error.                                                               *)
(*                                                                         *)
(* The engine (ReedSolomonEncoder / ReedSolomonDecoder) is an external     *)
(* crate.  It is modelled by what it does at its interface: parameter      *)
(* validation, shard bookkeeping and a real maximum-distance-separable     *)
(* Reed-Solomon code, here over GF(4) instead of GF(2^16): a field symbol  *)
(* is a pair of one-bit "bytes" instead of a pair of eight-bit bytes.      *)
(*                                                                         *)
(* Arguments are well typed (shards are byte strings, indices are          *)
(* unsigned integers), so the downcast / extract conversions succeed.      *)
(***************************************************************************)
EXTENDS Integers, Sequences, FiniteSets, TLC

VARIABLES
    pc,              \* position of the running call
    op,              \* "none" | "encode" | "decode"
    data,            \* encode argument: the list of original shards
    original,        \* decode argument: mapping index -> shard
    recovery,        \* decode argument: mapping index -> shard
    original_count,  \* encode: data.len(); decode: argument
    recovery_count,  \* argument of both calls
    shard_bytes,     \* length of the first shard seen
    pos,             \* encode: next position of original_iter
    first_idx,       \* decode: key of the first recovery entry iterated
    origLeft,        \* decode: keys of `original` not yet iterated
    recLeft,         \* decode: keys of `recovery` not yet iterated
    encoder,         \* the call's ReedSolomonEncoder
    decoder,         \* the call's ReedSolomonDecoder
    result,          \* what the call returns
    log,             \* engine calls made by the running call, in order
    failed,          \* some step of the running call reported an error
    stored,          \* caller side: the data and recovery shards of the
                     \* encode whose output this decode call was given
    prev             \* caller side: outcome of the previous decode call
                     \* with the same arguments

vars == <<pc, op, data, original, recovery, original_count, recovery_count,
          shard_bytes, pos, first_idx, origLeft, recLeft, encoder, decoder,
          result, log, failed, stored, prev>>

---------------------------------------------------------------------------
(* Bounds of the explored inputs.                                          *)

MaxCount == 2

MaxLen == 4

MaxShards == 2

\* Values of one byte of a shard.
Byte == {0, 1}

\* Byte strings of length 0..MaxLen.
ShardValues == UNION {[1..l -> Byte] : l \in 0..MaxLen}

\* One byte string of each length 0..MaxLen: the shards of a decode call
\* whose arguments do not come from an encode call.
BlankShards == {[i \in 1..l |-> 0] : l \in 0..MaxLen}

\* original_count / recovery_count arguments.
Counts == 0..MaxCount

\* Keys of the decode mappings; MaxCount is out of range for every count.
Indices == 0..MaxCount

---------------------------------------------------------------------------
(* The engine: galois field, capability, encoder and decoder.              *)

\* Order of the engine's field (65536 in the crate, 4 here).
GF_ORDER == 4

\* Field addition (and subtraction): bitwise xor of two-bit symbols.
GfAdd(a, b) == 2 * (((a \div 2) + (b \div 2)) % 2) + ((a + b) % 2)

\* Field multiplication in GF(4) = GF(2)[x] / (x^2 + x + 1).
GfMul(a, b) ==
    <<<<0, 0, 0, 0>>, <<0, 1, 2, 3>>, <<0, 2, 3, 1>>, <<0, 3, 1, 2>>>>[a + 1][b + 1]

GfInv(a) == CHOOSE b \in 1..(GF_ORDER - 1) : GfMul(a, b) = 1

RECURSIVE GfSum(_, _)
\* Field sum of f[x] over the finite set S.
GfSum(S, f) ==
    IF S = {} THEN 0
    ELSE LET x == CHOOSE y \in S : TRUE IN GfAdd(f[x], GfSum(S \ {x}, f))

RECURSIVE GfProd(_, _)
\* Field product of f[x] over the finite set S.
GfProd(S, f) ==
    IF S = {} THEN 1
    ELSE LET x == CHOOSE y \in S : TRUE IN GfMul(f[x], GfProd(S \ {x}, f))

\* Value at x0 of the polynomial of degree < |DOMAIN y| through the points
\* (x, y[x]): Lagrange interpolation.
Interpolate(y, x0) ==
    LET xs == DOMAIN y
        term == [xi \in xs |->
                   GfMul(y[xi],
                         GfProd(xs \ {xi},
                                [xj \in xs \ {xi} |->
                                   GfMul(GfAdd(x0, xj), GfInv(GfAdd(xi, xj)))]))]
    IN GfSum(xs, term)

\* The t-th field symbol of a shard: bytes 2t-1 and 2t.
Symbol(shard, t) == 2 * shard[2 * t - 1] + shard[2 * t]

\* The byte string of a sequence of field symbols.
FromSymbols(syms) ==
    [i \in 1..(2 * Len(syms)) |->
        IF i % 2 = 1 THEN syms[(i + 1) \div 2] \div 2 ELSE syms[i \div 2] % 2]

\* usize::next_power_of_two
NextPow2(n) == CHOOSE p \in {1, 2, 4, 8, 16} : p >= n /\ (p = 1 \/ p \div 2 < n)

Min(a, b) == IF a <= b THEN a ELSE b

Max(a, b) == IF a >= b THEN a ELSE b

\* ReedSolomonEncoder::supports / ReedSolomonDecoder::supports
EngineSupports(oc, rc) ==
    /\ oc > 0
    /\ rc > 0
    /\ oc <= GF_ORDER
    /\ rc <= GF_ORDER
    /\ Min(NextPow2(oc), NextPow2(rc)) + Max(oc, rc) <= GF_ORDER

\* fn supports(original_count, recovery_count) -> bool
supports(oc, rc) == EngineSupports(oc, rc)

NoError == [type |-> "none"]

Ok(v) == [ok |-> TRUE, val |-> v, err |-> NoError]

Err(e) == [ok |-> FALSE, val |-> <<>>, err |-> e]

NoEngine == [live |-> FALSE]

\* reed_solomon_simd::Error variants
TooFewOriginalShards(oc, got) ==
    [type |-> "TooFewOriginalShards", original_count |-> oc,
     original_received_count |-> got]

TooManyOriginalShards(oc) ==
    [type |-> "TooManyOriginalShards", original_count |-> oc]

NotEnoughShards(oc, og, rg) ==
    [type |-> "NotEnoughShards", original_count |-> oc,
     original_received_count |-> og, recovery_received_count |-> rg]

UnsupportedShardCount(oc, rc) ==
    [type |-> "UnsupportedShardCount", original_count |-> oc,
     recovery_count |-> rc]

InvalidShardSize(sb) == [type |-> "InvalidShardSize", shard_bytes |-> sb]

DifferentShardSize(sb, got) ==
    [type |-> "DifferentShardSize", shard_bytes |-> sb, got |-> got]

InvalidOriginalShardIndex(oc, i) ==
    [type |-> "InvalidOriginalShardIndex", original_count |-> oc, index |-> i]

InvalidRecoveryShardIndex(rc, i) ==
    [type |-> "InvalidRecoveryShardIndex", recovery_count |-> rc, index |-> i]

DuplicateOriginalShardIndex(i) ==
    [type |-> "DuplicateOriginalShardIndex", index |-> i]

DuplicateRecoveryShardIndex(i) ==
    [type |-> "DuplicateRecoveryShardIndex", index |-> i]

\* Shared validation of the engine constructors.
EngineValidate(oc, rc, sb) ==
    IF ~EngineSupports(oc, rc) THEN UnsupportedShardCount(oc, rc)
    ELSE IF sb = 0 \/ sb % 2 # 0 THEN InvalidShardSize(sb)
    ELSE NoError

\* ReedSolomonEncoder::new
EncoderNew(oc, rc, sb) ==
    LET e == EngineValidate(oc, rc, sb) IN
    IF e # NoError THEN Err(e)
    ELSE Ok([live |-> TRUE, original_count |-> oc, recovery_count |-> rc,
             shard_bytes |-> sb, shards |-> <<>>])

\* ReedSolomonEncoder::add_original_shard
EncoderAddOriginal(enc, shard) ==
    IF Len(enc.shards) = enc.original_count
    THEN Err(TooManyOriginalShards(enc.original_count))
    ELSE IF Len(shard) # enc.shard_bytes
    THEN Err(DifferentShardSize(enc.shard_bytes, Len(shard)))
    ELSE Ok([enc EXCEPT !.shards = Append(@, shard)])

\* The code word of the engine: original shard i is the value at point i,
\* recovery shard j the value at point original_count + j, of one polynomial
\* of degree < original_count per symbol position.
RecoveryShard(shards, oc, sb, j) ==
    FromSymbols([t \in 1..(sb \div 2) |->
        Interpolate([i \in 0..(oc - 1) |-> Symbol(shards[i + 1], t)], oc + j)])

\* ReedSolomonEncoder::encode: the EncoderResult, recovery index -> shard
EncoderEncode(enc) ==
    IF Len(enc.shards) # enc.original_count
    THEN Err(TooFewOriginalShards(enc.original_count, Len(enc.shards)))
    ELSE Ok([j \in 0..(enc.recovery_count - 1) |->
               RecoveryShard(enc.shards, enc.original_count, enc.shard_bytes, j)])

\* ReedSolomonDecoder::new
DecoderNew(oc, rc, sb) ==
    LET e == EngineValidate(oc, rc, sb) IN
    IF e # NoError THEN Err(e)
    ELSE Ok([live |-> TRUE, original_count |-> oc, recovery_count |-> rc,
             shard_bytes |-> sb, original |-> <<>>, recovery |-> <<>>])

\* m with key k set to v
Put(m, k, v) == [x \in DOMAIN m \cup {k} |-> IF x = k THEN v ELSE m[x]]

\* ReedSolomonDecoder::add_original_shard
DecoderAddOriginal(dec, idx, shard) ==
    IF idx >= dec.original_count
    THEN Err(InvalidOriginalShardIndex(dec.original_count, idx))
    ELSE IF idx \in DOMAIN dec.original
    THEN Err(DuplicateOriginalShardIndex(idx))
    ELSE IF Cardinality(DOMAIN dec.original) = dec.original_count
    THEN Err(TooManyOriginalShards(dec.original_count))
    ELSE IF Len(shard) # dec.shard_bytes
    THEN Err(DifferentShardSize(dec.shard_bytes, Len(shard)))
    ELSE Ok([dec EXCEPT !.original = Put(@, idx, shard)])

\* ReedSolomonDecoder::add_recovery_shard
DecoderAddRecovery(dec, idx, shard) ==
    IF idx >= dec.recovery_count
    THEN Err(InvalidRecoveryShardIndex(dec.recovery_count, idx))
    ELSE IF idx \in DOMAIN dec.recovery
    THEN Err(DuplicateRecoveryShardIndex(idx))
    ELSE IF Len(shard) # dec.shard_bytes
    THEN Err(DifferentShardSize(dec.shard_bytes, Len(shard)))
    ELSE Ok([dec EXCEPT !.recovery = Put(@, idx, shard)])

RECURSIVE Lowest(_, _)
\* The n smallest elements of the set of numbers S.
Lowest(S, n) ==
    IF n = 0 \/ S = {} THEN {}
    ELSE LET m == CHOOSE x \in S : \A y \in S : x <= y
         IN {m} \cup Lowest(S \ {m}, n - 1)

\* ReedSolomonDecoder::decode, and DecoderResult::restored_original_iter
\* collected: the originals that were not received, interpolated from the
\* received originals and as many received recovery shards as are missing.
DecoderDecode(dec) ==
    LET oc   == dec.original_count
        got  == DOMAIN dec.original
        gotR == DOMAIN dec.recovery
        lost == (0..(oc - 1)) \ got
        use  == Lowest(gotR, Cardinality(lost))
        pts  == got \cup {oc + j : j \in use}
        at(x, t) == IF x < oc THEN Symbol(dec.original[x], t)
                    ELSE Symbol(dec.recovery[x - oc], t)
    IN
    IF Cardinality(got) + Cardinality(gotR) < oc
    THEN Err(NotEnoughShards(oc, Cardinality(got), Cardinality(gotR)))
    ELSE Ok([i \in lost |->
               FromSymbols([t \in 1..(dec.shard_bytes \div 2) |->
                   Interpolate([x \in pts |-> at(x, t)], i)])])

---------------------------------------------------------------------------
(* The calls.                                                              *)

NoResult == [kind |-> "none", val |-> <<>>, err |-> NoError]

Returned(v) == [kind |-> "ok", val |-> v, err |-> NoError]

\* impl From<Error> for PyErr: every engine error becomes one ValueError
Raised(e) == [kind |-> "err", val |-> <<>>, err |-> e]

NoStored == [held |-> FALSE]

NoPrev == [held |-> FALSE]

Init ==
    /\ pc = "idle"
    /\ op = "none"
    /\ data = <<>>
    /\ original = <<>>
    /\ recovery = <<>>
    /\ original_count = 0
    /\ recovery_count = 0
    /\ shard_bytes = 0
    /\ pos = 0
    /\ first_idx = 0
    /\ origLeft = {}
    /\ recLeft = {}
    /\ encoder = NoEngine
    /\ decoder = NoEngine
    /\ result = NoResult
    /\ log = <<>>
    /\ failed = FALSE
    /\ stored = NoStored
    /\ prev = NoPrev

\* Abort that records the error but lets the call go on.
AbortContinue(e) ==
    /\ result' = Raised(e)
    /\ failed' = TRUE
    /\ UNCHANGED pc

\* The call ends with an error: the `?` / `return Err(..)` of the code.
Abort(e) ==
    /\ pc' = "done"
    /\ result' = Raised(e)
    /\ failed' = TRUE

\* EmptyInput with the error variant of decode.
EmptyInputAsDecode(oc) == NotEnoughShards(oc, 0, 0)

\* The error of encode for an empty list.
EmptyInput(oc) == TooFewOriginalShards(oc, 0)

\* The caller invokes encode(data, recovery_count); original_count is
\* data.len() and original_iter starts at the first element.
EncodeCall ==
    /\ pc = "idle"
    /\ \E n \in Counts, rc \in Counts :
         \E d \in [1..n -> ShardValues] :
            /\ data' = d
            /\ recovery_count' = rc
            /\ original_count' = Len(d)
    /\ op' = "encode"
    /\ pos' = 1
    /\ pc' = "e_first"
    /\ UNCHANGED <<original, recovery, shard_bytes, first_idx, origLeft, recLeft,
                   encoder, decoder, result, log, failed, stored, prev>>

\* let Some(first) = original_iter.next() else { return Err(..) };
\* shard_bytes = first.len()
EncodeFirst ==
    /\ pc = "e_first"
    /\ IF pos > Len(data)
       THEN /\ Abort(EmptyInput(original_count))
            /\ UNCHANGED <<shard_bytes, pos>>
       ELSE /\ shard_bytes' = Len(data[pos])
            /\ pos' = pos + 1
            /\ pc' = "e_new"
            /\ UNCHANGED <<result, failed>>
    /\ UNCHANGED <<op, data, original, recovery, original_count, recovery_count,
                   first_idx, origLeft, recLeft, encoder, decoder, log, stored, prev>>

\* ReedSolomonEncoder::new(original_count, recovery_count, shard_bytes)?
EncodeNew ==
    /\ pc = "e_new"
    /\ log' = Append(log, "new")
    /\ LET r == EncoderNew(original_count, recovery_count, shard_bytes) IN
       IF r.ok
       THEN /\ encoder' = r.val
            /\ pc' = "e_add_first"
            /\ UNCHANGED <<result, failed>>
       ELSE /\ Abort(r.err)
            /\ UNCHANGED encoder
    /\ UNCHANGED <<op, data, original, recovery, original_count, recovery_count,
                   shard_bytes, pos, first_idx, origLeft, recLeft, decoder,
                   stored, prev>>

\* encoder.add_original_shard(first)?
EncodeAddFirst ==
    /\ pc = "e_add_first"
    /\ log' = Append(log, "add_original")
    /\ LET r == EncoderAddOriginal(encoder, data[1]) IN
       IF r.ok
       THEN /\ encoder' = r.val
            /\ pc' = "e_add"
            /\ UNCHANGED <<result, failed>>
       ELSE /\ Abort(r.err)
            /\ UNCHANGED encoder
    /\ UNCHANGED <<op, data, original, recovery, original_count, recovery_count,
                   shard_bytes, pos, first_idx, origLeft, recLeft, decoder,
                   stored, prev>>

\* for original_shard in original_iter { encoder.add_original_shard(..)? }
EncodeAdd ==
    /\ pc = "e_add"
    /\ pos <= Len(data)
    /\ log' = Append(log, "add_original")
    /\ LET r == EncoderAddOriginal(encoder, data[pos]) IN
       IF r.ok
       THEN /\ encoder' = r.val
            /\ pos' = pos + 1
            /\ UNCHANGED <<pc, result, failed>>
       ELSE /\ Abort(r.err)
            /\ UNCHANGED <<encoder, pos>>
    /\ UNCHANGED <<op, data, original, recovery, original_count, recovery_count,
                   shard_bytes, first_idx, origLeft, recLeft, decoder,
                   stored, prev>>

\* EncodeOutput with the recovery shards in reverse order.
EncodeOutputReversed(res) ==
    [j \in 1..Cardinality(DOMAIN res) |-> res[Cardinality(DOMAIN res) - j]]

\* EncodeOutput without the last recovery shard.
EncodeOutputShort(res) == [j \in 1..(Cardinality(DOMAIN res) - 1) |-> res[j - 1]]

\* The list handed to the caller: recovery_iter() visits the recovery shards
\* in index order and each becomes the next element of the list.
EncodeOutput(res) == [j \in 1..Cardinality(DOMAIN res) |-> res[j - 1]]

\* encoder.encode()?; the recovery shards collected into the returned list
EncodeFinish ==
    /\ pc = "e_add"
    /\ pos > Len(data)
    /\ log' = Append(log, "encode")
    /\ LET r == EncoderEncode(encoder) IN
       IF r.ok
       THEN /\ result' = Returned(EncodeOutput(r.val))
            /\ pc' = "done"
            /\ UNCHANGED failed
       ELSE Abort(r.err)
    /\ UNCHANGED <<op, data, original, recovery, original_count, recovery_count,
                   shard_bytes, pos, first_idx, origLeft, recLeft, encoder, decoder,
                   stored, prev>>

\* Arguments of decode whose mappings hold at most MaxShards entries.
DecodeArgs ==
    {a \in [o : SUBSET Indices, r : SUBSET Indices] :
        Cardinality(a.o) + Cardinality(a.r) <= MaxShards}

\* A fresh decode call with the given arguments.
StartDecode(oc, rc, o, r) ==
    /\ original_count' = oc
    /\ recovery_count' = rc
    /\ original' = o
    /\ recovery' = r
    /\ op' = "decode"
    /\ pc' = "d_fast"
    /\ data' = <<>>
    /\ shard_bytes' = 0
    /\ pos' = 0
    /\ first_idx' = 0
    /\ origLeft' = {}
    /\ recLeft' = {}
    /\ encoder' = NoEngine
    /\ decoder' = NoEngine
    /\ result' = NoResult
    /\ log' = <<>>
    /\ failed' = FALSE

\* The caller invokes decode(original_count, recovery_count, original,
\* recovery) with arbitrary arguments.
DecodeCall ==
    /\ pc = "idle"
    /\ \E oc \in Counts, rc \in Counts, a \in DecodeArgs :
         \E o \in [a.o -> BlankShards], r \in [a.r -> BlankShards] :
            StartDecode(oc, rc, o, r)
    /\ stored' = NoStored
    /\ prev' = NoPrev

\* The caller of a successful encode loses some of the original shards and
\* some of the recovery shards and invokes decode with what is left.
DecodeStored ==
    /\ pc = "done"
    /\ op = "encode"
    /\ result.kind = "ok"
    /\ \E lost \in SUBSET (0..(original_count - 1)),
          keep \in SUBSET (0..(recovery_count - 1)) :
         StartDecode(original_count, recovery_count,
                     [i \in (0..(original_count - 1)) \ lost |-> data[i + 1]],
                     [j \in keep |-> result.val[j + 1]])
    /\ stored' = [held |-> TRUE, data |-> data, recovery |-> result.val]
    /\ prev' = NoPrev

\* The caller repeats a finished decode call with the same arguments; the
\* mappings may be iterated in another order this time.
DecodeRecall ==
    /\ pc = "done"
    /\ op = "decode"
    /\ StartDecode(original_count, recovery_count, original, recovery)
    /\ prev' = [held |-> TRUE, result |-> result]
    /\ UNCHANGED stored

\* OriginalComplete with the comparison off by one.
OriginalCompleteMore(orig, oc) == Cardinality(DOMAIN orig) > oc

\* if original.len() == original_count
OriginalComplete(orig, oc) == Cardinality(DOMAIN orig) = oc

\* if original.len() == original_count { return Ok(PyDict::new(py)); }
DecodeFast ==
    /\ pc = "d_fast"
    /\ IF OriginalComplete(original, original_count)
       THEN /\ result' = Returned(<<>>)
            /\ pc' = "done"
       ELSE /\ pc' = "d_first"
            /\ UNCHANGED result
    /\ UNCHANGED <<op, data, original, recovery, original_count, recovery_count,
                   shard_bytes, pos, first_idx, origLeft, recLeft, encoder, decoder,
                   log, failed, stored, prev>>

\* Starved that reports no received original shard.
StarvedNoCount(oc, orig) == NotEnoughShards(oc, 0, 0)

\* The error of decode for an incomplete original and an empty recovery.
Starved(oc, orig) == NotEnoughShards(oc, Cardinality(DOMAIN orig), 0)

\* OriginalEntries of a loop that is skipped.
OriginalEntriesNone(orig) == {}

\* The entries `for (idx, shard) in original` visits.
OriginalEntries(orig) == DOMAIN orig

\* RestOfRecovery of an iterator that starts over.
RestOfRecoveryAll(rec, first) == DOMAIN rec

\* RestOfRecovery of an iterator that resumes behind the first key.
RestOfRecoveryAfter(rec, first) == {k \in DOMAIN rec : k > first}

\* The entries left in recovery_iter after the first one.
RestOfRecovery(rec, first) == DOMAIN rec \ {first}

\* let Some((first_recovery_idx, first_recovery)) = recovery_iter.next()
\* else { return Err(NotEnoughShards) }; any entry may come first.
DecodeFirst ==
    /\ pc = "d_first"
    /\ IF DOMAIN recovery = {}
       THEN /\ Abort(Starved(original_count, original))
            /\ UNCHANGED <<first_idx, shard_bytes, origLeft, recLeft>>
       ELSE /\ \E k \in DOMAIN recovery :
                 /\ first_idx' = k
                 /\ shard_bytes' = Len(recovery[k])
                 /\ recLeft' = RestOfRecovery(recovery, k)
            /\ origLeft' = OriginalEntries(original)
            /\ pc' = "d_new"
            /\ UNCHANGED <<result, failed>>
    /\ UNCHANGED <<op, data, original, recovery, original_count, recovery_count,
                   pos, encoder, decoder, log, stored, prev>>

\* ReedSolomonDecoder::new(original_count, recovery_count,
\*                         first_recovery_bytes.len())?
DecodeNew ==
    /\ pc = "d_new"
    /\ log' = Append(log, "new")
    /\ LET r == DecoderNew(original_count, recovery_count, shard_bytes) IN
       IF r.ok
       THEN /\ decoder' = r.val
            /\ pc' = "d_orig"
            /\ UNCHANGED <<result, failed>>
       ELSE /\ Abort(r.err)
            /\ UNCHANGED decoder
    /\ UNCHANGED <<op, data, original, recovery, original_count, recovery_count,
                   shard_bytes, pos, first_idx, origLeft, recLeft, encoder,
                   stored, prev>>

\* for (idx, shard) in original { decoder.add_original_shard(idx, shard)? }
DecodeAddOriginal ==
    /\ pc = "d_orig"
    /\ \E k \in origLeft :
         LET r == DecoderAddOriginal(decoder, k, original[k]) IN
         IF r.ok
         THEN /\ decoder' = r.val
              /\ origLeft' = origLeft \ {k}
              /\ UNCHANGED <<pc, result, failed>>
         ELSE /\ Abort(r.err)
              /\ UNCHANGED <<decoder, origLeft>>
    /\ log' = Append(log, "add_original")
    /\ UNCHANGED <<op, data, original, recovery, original_count, recovery_count,
                   shard_bytes, pos, first_idx, recLeft, encoder, stored, prev>>

\* decoder.add_recovery_shard(first_recovery_idx, first_recovery_bytes)?
DecodeAddFirstRecovery ==
    /\ pc = "d_orig"
    /\ origLeft = {}
    /\ log' = Append(log, "add_recovery")
    /\ LET r == DecoderAddRecovery(decoder, first_idx, recovery[first_idx]) IN
       IF r.ok
       THEN /\ decoder' = r.val
            /\ pc' = "d_rec"
            /\ UNCHANGED <<result, failed>>
       ELSE /\ Abort(r.err)
            /\ UNCHANGED decoder
    /\ UNCHANGED <<op, data, original, recovery, original_count, recovery_count,
                   shard_bytes, pos, first_idx, origLeft, recLeft, encoder,
                   stored, prev>>

\* for (idx, shard) in recovery_iter { decoder.add_recovery_shard(idx, shard)? }
DecodeAddRecovery ==
    /\ pc = "d_rec"
    /\ \E k \in recLeft :
         LET r == DecoderAddRecovery(decoder, k, recovery[k]) IN
         IF r.ok
         THEN /\ decoder' = r.val
              /\ recLeft' = recLeft \ {k}
              /\ UNCHANGED <<pc, result, failed>>
         ELSE /\ Abort(r.err)
              /\ UNCHANGED <<decoder, recLeft>>
    /\ log' = Append(log, "add_recovery")
    /\ UNCHANGED <<op, data, original, recovery, original_count, recovery_count,
                   shard_bytes, pos, first_idx, origLeft, encoder, stored, prev>>

\* The dict handed to the caller: one item per restored original.
DecodeOutput(restored) == [i \in DOMAIN restored |-> restored[i]]

\* decoder.decode()?; restored_original_iter() collected into the dict
DecodeFinish ==
    /\ pc = "d_rec"
    /\ recLeft = {}
    /\ log' = Append(log, "decode")
    /\ LET r == DecoderDecode(decoder) IN
       IF r.ok
       THEN /\ result' = Returned(DecodeOutput(r.val))
            /\ pc' = "done"
            /\ UNCHANGED failed
       ELSE Abort(r.err)
    /\ UNCHANGED <<op, data, original, recovery, original_count, recovery_count,
                   shard_bytes, pos, first_idx, origLeft, recLeft, encoder, decoder,
                   stored, prev>>

\* The call has returned: its locals and its engine are dropped.
Return ==
    /\ pc = "done"
    /\ pc' = "idle"
    /\ op' = "none"
    /\ data' = <<>>
    /\ original' = <<>>
    /\ recovery' = <<>>
    /\ original_count' = 0
    /\ recovery_count' = 0
    /\ shard_bytes' = 0
    /\ pos' = 0
    /\ first_idx' = 0
    /\ origLeft' = {}
    /\ recLeft' = {}
    /\ encoder' = NoEngine
    /\ decoder' = NoEngine
    /\ result' = NoResult
    /\ log' = <<>>
    /\ failed' = FALSE
    /\ stored' = NoStored
    /\ prev' = NoPrev

Next ==
    \/ EncodeCall
    \/ EncodeFirst
    \/ EncodeNew
    \/ EncodeAddFirst
    \/ EncodeAdd
    \/ EncodeFinish
    \/ DecodeCall
    \/ DecodeStored
    \/ DecodeRecall
    \/ DecodeFast
    \/ DecodeFirst
    \/ DecodeNew
    \/ DecodeAddOriginal
    \/ DecodeAddFirstRecovery
    \/ DecodeAddRecovery
    \/ DecodeFinish
    \/ Return

Spec == Init /\ [][Next]_vars

Pcs == {"idle", "e_first", "e_new", "e_add_first", "e_add", "d_fast", "d_first",
        "d_new", "d_orig", "d_rec", "done"}

TypeOK ==
    /\ pc \in Pcs
    /\ op \in {"none", "encode", "decode"}
    /\ result.kind \in {"none", "ok", "err"}
    /\ failed \in BOOLEAN
---------------------------------------------------------------------------
(* Properties.                                                             *)

\* Indices of the originals the decode call was not given.
Lost == (0..(original_count - 1)) \ DOMAIN original

\* A shard length the engine accepts.
ValidLen(l) == l > 0 /\ l % 2 = 0

DecodeDone == pc = "done" /\ op = "decode"

EncodeDone == pc = "done" /\ op = "encode"

\* C1 (round trip): a decode call that is given what is left of a successful
\* encode -- at least one recovery shard and at least original_count shards
\* in total -- succeeds and returns exactly the lost originals, byte for byte.
C1_RoundTrip ==
    (/\ DecodeDone
     /\ stored.held
     /\ DOMAIN recovery # {}
     /\ Cardinality(DOMAIN original) + Cardinality(DOMAIN recovery) >= original_count)
    => /\ result.kind = "ok"
       /\ DOMAIN result.val = Lost
       /\ \A i \in Lost : result.val[i] = stored.data[i + 1]

C1_Witness ==
    /\ DecodeDone
    /\ stored.held
    /\ Cardinality(Lost) = 2
    /\ result.kind = "ok"
    /\ Len(stored.data[1]) = 4
    /\ stored.data[1] # stored.data[2]

\* C2 (fast path): once decode has looked at an original mapping with
\* original_count entries, the call is over, has returned the empty mapping,
\* has made no engine call and has not failed, whatever recovery holds and
\* whether or not the counts are supported.
C2_FastPath ==
    (/\ op = "decode"
     /\ pc # "d_fast"
     /\ Cardinality(DOMAIN original) = original_count)
    => /\ pc = "done"
       /\ result = Returned(<<>>)
       /\ log = <<>>
       /\ ~failed

C2_Witness ==
    /\ DecodeDone
    /\ Cardinality(DOMAIN original) = original_count
    /\ original_count > 0
    /\ recovery = <<>>
    /\ ~supports(original_count, recovery_count)
    /\ result.kind = "ok"

\* C3 (starvation): with an original mapping whose size differs from
\* original_count and an empty recovery mapping, decode fails with
\* NotEnoughShards(original_count, size of original, 0) before any engine
\* call, also for unsupported counts.
C3_Starvation ==
    (/\ op = "decode"
     /\ pc \notin {"d_fast", "d_first"}
     /\ Cardinality(DOMAIN original) # original_count
     /\ DOMAIN recovery = {})
    => /\ pc = "done"
       /\ result = Raised(NotEnoughShards(original_count,
                                          Cardinality(DOMAIN original), 0))
       /\ log = <<>>

C3_Witness ==
    /\ DecodeDone
    /\ DOMAIN recovery = {}
    /\ DOMAIN original # {}
    /\ Cardinality(DOMAIN original) # original_count
    /\ ~supports(original_count, recovery_count)
    /\ result.kind = "err"

\* C4 (empty input): encode of the empty list fails with
\* TooFewOriginalShards(0, 0) for every recovery_count, before any engine call.
C4_EmptyInput ==
    (/\ op = "encode"
     /\ pc # "e_first"
     /\ data = <<>>)
    => /\ pc = "done"
       /\ result = Raised(TooFewOriginalShards(0, 0))
       /\ log = <<>>

C4_Witness ==
    /\ EncodeDone
    /\ data = <<>>
    /\ recovery_count > 0
    /\ result.kind = "err"

\* C5 (index ranges): decode never returns successfully when original holds
\* an index outside [0, original_count) or recovery holds an index outside
\* [0, recovery_count).
C5_OutOfRangeFails ==
    (/\ DecodeDone
     /\ \/ \E i \in DOMAIN original : i >= original_count
        \/ \E j \in DOMAIN recovery : j >= recovery_count)
    => result.kind # "ok"

\* C6 (no echo): the mapping a successful decode returns has no index of
\* the original mapping it was given.
C6_NoEcho ==
    (DecodeDone /\ result.kind = "ok")
    => DOMAIN result.val \cap DOMAIN original = {}

C6_Witness ==
    /\ DecodeDone
    /\ result.kind = "ok"
    /\ DOMAIN result.val # {}
    /\ DOMAIN original # {}

\* The result of a successful call is whole.
Complete ==
    IF op = "encode" THEN Len(result.val) = recovery_count
    ELSE log = <<>> \/ DOMAIN result.val = Lost

\* C7 (atomic, fail fast): a call that has failed holds one error, makes no
\* further engine call and keeps that error until the next call starts; a
\* result exists only when the call is over, and a successful result is whole
\* and comes from a call no step of which failed.
C7_Atomic ==
    [][/\ failed => /\ result.kind = "err"
                    /\ log' = log \/ log' = <<>>
                    /\ result' = result \/ result' = NoResult
       /\ result.kind # "none" => pc = "done"
       /\ pc = "done" => (result.kind = "err") = failed
       /\ result.kind = "ok" => Complete]_vars

C7_Witness ==
    /\ DecodeDone
    /\ failed
    /\ Len(log) >= 3
    /\ recLeft # {}

\* C8 (encode shape): encode of a non-empty list of shards of one valid
\* length, with supported counts, returns recovery_count shards of that
\* length, position i holding recovery shard i of the engine.
C8_EncodeShape ==
    (/\ EncodeDone
     /\ data # <<>>
     /\ \A i \in 1..Len(data) : Len(data[i]) = Len(data[1])
     /\ ValidLen(Len(data[1]))
     /\ supports(Len(data), recovery_count))
    => /\ result.kind = "ok"
       /\ Len(result.val) = recovery_count
       /\ \A j \in 1..recovery_count :
            /\ Len(result.val[j]) = Len(data[1])
            /\ result.val[j] = RecoveryShard(data, Len(data), Len(data[1]), j - 1)

C8_Witness ==
    /\ EncodeDone
    /\ result.kind = "ok"
    /\ Len(data) = 2
    /\ recovery_count = 2
    /\ Len(data[1]) = 4
    /\ result.val[1] # result.val[2]

\* C9 (data loss): with an incomplete original mapping, supported counts,
\* every index in range, every shard of one valid length and fewer than
\* original_count shards in all, decode fails with NotEnoughShards.
C9_DataLoss ==
    (/\ DecodeDone
     /\ Cardinality(DOMAIN original) # original_count
     /\ supports(original_count, recovery_count)
     /\ \A i \in DOMAIN original : i < original_count
     /\ \A j \in DOMAIN recovery : j < recovery_count
     /\ \E l \in 1..MaxLen :
          /\ ValidLen(l)
          /\ \A i \in DOMAIN original : Len(original[i]) = l
          /\ \A j \in DOMAIN recovery : Len(recovery[j]) = l
     /\ Cardinality(DOMAIN original) + Cardinality(DOMAIN recovery) < original_count)
    => /\ result.kind = "err"
       /\ result.err.type = "NotEnoughShards"

C9_Witness ==
    /\ DecodeDone
    /\ DOMAIN recovery # {}
    /\ Cardinality(DOMAIN original) + Cardinality(DOMAIN recovery) < original_count
    /\ result.err.type = "NotEnoughShards"
    /\ log # <<>>
    /\ log[Len(log)] = "decode"

\* C10 (iteration order): two decode calls with the same arguments both
\* succeed or both fail, whatever entry of recovery each iterates first and
\* in whatever order it adds the others, and when they succeed they return
\* the same mapping.
C10_OrderIndependent ==
    (DecodeDone /\ prev.held)
    => /\ prev.result.kind = result.kind
       /\ result.kind = "ok" => prev.result.val = result.val

C10_Witness ==
    /\ DecodeDone
    /\ prev.held
    /\ Cardinality(DOMAIN recovery) >= 2
    /\ result.kind = "err"
    /\ prev.result.kind = "err"
    /\ result.err.type # prev.result.err.type
====
